---- MODULE Spec2Model ----
(***************************************************************************)
(* Scan-orchestration pipeline of vulntrack: the trigger endpoints of      *)
(* app/api/v1/endpoints/scan.py, the Celery task run_web_ai_scan of        *)
(* app/core/tasks.py and the REST persistence client of                    *)
(* app/core/supabase_client.py.  Every HTTP request to the persistence     *)
(* backend is one atomic step that either succeeds or raises.  The search  *)
(* client BraveSearchService of app/services/external_apis.py and of       *)
(* app/services/external_apis_backup.py is modelled with a clock.          *)
(***************************************************************************)
EXTENDS Integers, Sequences, FiniteSets, TLC

VARIABLES scans, patchLog, run, queue, batch, vulnerabilities, scan_results, notifications,
          response, service, now, last_request_time, callers, requests, filtering

\* the state of the external API clients: which module their classes come
\* from, the clock, the search instance's _last_request_time, its callers and
\* the outbound requests issued so far, and the call of the filter client
search == <<service, now, last_request_time, callers, requests, filtering>>

vars == <<scans, patchLog, run, queue, batch, vulnerabilities, scan_results, notifications,
          response, search>>

\* ------------------------------------------------------------------ bounds
\* at most this many scan rows are created
MaxScans == 2
\* at most this many candidates in one analysis result
MaxVulns == 2
\* at most this many device ids in one batch request
MaxBatch == 2
\* at most this many jobs in the one-worker specifications
MaxSoloScans == 1
\* at most this many jobs in the specification of the whole scan
MaxOrchestrated == 1
\* at most this many scan rows in the specification of the endpoints
MaxFrameScans == 2
\* at most this many jobs run in parallel in the catalog race
MaxRaceScans == 2
\* the clock resolution: ticks per second
TicksPerSecond == 2
\* the clock stops at this tick
MaxTime == 6
\* at most this many whitespace characters in a row in a generated text
MaxPad == 1
\* at most this many coroutines share the search client
MaxCallers == 2
\* at most this many outbound search requests
MaxRequests == 3

\* ------------------------------------------------------------- JSON values
\* A Python str whose characters matter is a sequence of one-character strings.
Absent == [t |-> "absent"]
Null == [t |-> "null"]
Str(s) == [t |-> "str", s |-> s]
\* a JSON number, counted in tenths (Num(9) is 0.9)
Num(v) == [t |-> "num", v |-> v]

\* Python truthiness of dict.get(key): a missing key gives None
Falsy(x) == x.t \in {"absent", "null"} \/ (x.t = "str" /\ x.s = <<>>)

Informational == <<"I", "n", "f", "o", "r", "m", "a", "t", "i", "o", "n", "a", "l">>
unknown == <<"u", "n", "k", "n", "o", "w", "n">>
uknown == <<"u", "k", "n", "o", "w", "n">>

\* str.lower() on the letters the model uses
LowerChar(c) ==
  CASE c = "U" -> "u" [] c = "N" -> "n" [] c = "K" -> "k" [] c = "O" -> "o"
    [] c = "W" -> "w" [] c = "H" -> "h" [] c = "I" -> "i" [] c = "G" -> "g"
    [] c = "F" -> "f" [] OTHER -> c

Lower(s) == [i \in 1..Len(s) |-> LowerChar(s[i])]

Digits == {"0", "1", "2", "3", "4", "5", "6", "7", "8", "9"}

DigitVal(c) ==
  CASE c = "0" -> 0 [] c = "1" -> 1 [] c = "2" -> 2 [] c = "3" -> 3 [] c = "4" -> 4
    [] c = "5" -> 5 [] c = "6" -> 6 [] c = "7" -> 7 [] c = "8" -> 8 [] c = "9" -> 9

\* float(x): a number or the exception it raises
Float(x) ==
  CASE x.t = "num" -> [ok |-> TRUE, v |-> x.v]
    [] x.t = "str" ->
         IF Len(x.s) = 1 /\ x.s[1] \in Digits
           THEN [ok |-> TRUE, v |-> 10 * DigitVal(x.s[1])]
         ELSE IF Len(x.s) = 3 /\ x.s[1] \in Digits /\ x.s[2] = "." /\ x.s[3] \in Digits
           THEN [ok |-> TRUE, v |-> 10 * DigitVal(x.s[1]) + DigitVal(x.s[3])]
         ELSE [ok |-> FALSE, err |-> "ValueError"]
    [] OTHER -> [ok |-> FALSE, err |-> "TypeError"]

\* ------------------------------------------------------------------ devices
\* the devices table: read-only to the pipeline
Devices ==
  << [id |-> "d1", is_active |-> TRUE, user_id |-> "u1"],
     [id |-> "d2", is_active |-> TRUE, user_id |-> "None"],
     [id |-> "d3", is_active |-> FALSE, user_id |-> "u1"] >>

\* device ids a request may carry; "dx" names no device
DeviceIds == {"d1", "d2", "d3", "dx"}

\* supabase.get("devices", id = eq.device_id)
GetDevices(device_id) == SelectSeq(Devices, LAMBDA d : d.id = device_id)

\* ------------------------------------------------------------ scan results
\* What vulnerability_scanner.scan_device returns: a dict with the job-level
\* confidence_score, a summary and the list of vulnerability candidates.
high == <<"h", "i", "g", "h">>

Candidates(cves, sevs) == [cve_id : cves, severity : sevs]

RECURSIVE SeqsUpTo(_, _)
SeqsUpTo(S, n) ==
  IF n = 0 THEN {<<>>}
  ELSE LET shorter == SeqsUpTo(S, n - 1)
       IN shorter \cup {Append(q, x) : q \in {p \in shorter : Len(p) = n - 1}, x \in S}

ScanResultsOf(confs, cands) ==
  [confidence_score : confs, summary : {"ai summary"},
   vulnerabilities : SeqsUpTo(cands, MaxVulns)]

\* the analysis results of the concurrent specification
ScanResults ==
  ScanResultsOf({Num(9), Null},
                Candidates({"CVE-B"}, {Str(<<"H", "i", "g", "h">>)}))

\* analysis results that vary the job-level confidence score
ConfidenceResults ==
  ScanResultsOf({Absent, Null, Num(9), Str(<<"0", ".", "7">>), Str(<<"1">>), Str(high)},
                Candidates({"CVE-B"}, {Str(<<"H", "i", "g", "h">>)}))

\* analysis results that vary the candidates' severity
SeverityResults ==
  ScanResultsOf({Num(9)},
                Candidates({"CVE-B"},
                           {Absent, Null, Str(<<>>),
                            Str(<<"U", "n", "K", "N", "O", "w", "n">>),
                            Str(<<"U", "K", "N", "O", "W", "N">>),
                            Str(<<"u", "n", "k", "n", "o", "w">>)}))

\* analysis results that vary the candidates' CVE identifier
CatalogResults ==
  ScanResultsOf({Num(9)},
                Candidates({"None", "", "CVE-A", "CVE-B"}, {Str(<<"H", "i", "g", "h">>)}))

NoResult == [confidence_score |-> Absent, summary |-> "", vulnerabilities |-> <<>>]

\* Severity without the lower-casing of the comparison
Severity_CaseSensitive(vuln) ==
  LET severity == IF Falsy(vuln.severity) THEN Informational ELSE vuln.severity.s
  IN IF severity \in {unknown, uknown, <<>>} THEN Informational ELSE severity

\* tasks.py 54-56: the severity written to the catalog entry and the finding
Severity(vuln) ==
  LET severity == IF Falsy(vuln.severity) THEN Informational ELSE vuln.severity.s
  IN IF Lower(severity) \in {unknown, uknown, <<>>} THEN Informational ELSE severity

\* tasks.py 62: "if cve_id"
HasCve(vuln) == vuln.cve_id \notin {"None", ""}

\* UpdateFields with an invalid confidence score coerced to 0.0 instead of omitted
UpdateFields_Coerced(scan_result) ==
  LET f == Float(scan_result.confidence_score)
  IN [status |-> "completed",
      summary |-> scan_result.summary,
      ai_confidence_score |-> IF f.ok THEN Num(f.v) ELSE Num(0),
      vulnerabilities_found |-> Num(Len(scan_result.vulnerabilities))]

\* a result without vulnerabilities is patched as failed
UpdateFields_FailedWhenEmpty(scan_result) ==
  [status |-> IF scan_result.vulnerabilities = <<>> THEN "failed" ELSE "completed",
   summary |-> scan_result.summary,
   ai_confidence_score |-> Absent,
   vulnerabilities_found |-> Num(Len(scan_result.vulnerabilities))]

\* tasks.py 33-46: the payload of the completed patch
UpdateFields(scan_result) ==
  LET confidence_score == scan_result.confidence_score
      f == Float(confidence_score)
  IN [status |-> "completed",
      summary |-> scan_result.summary,
      ai_confidence_score |->
        IF confidence_score.t \notin {"absent", "null"} /\ f.ok THEN Num(f.v) ELSE Absent,
      vulnerabilities_found |-> Num(Len(scan_result.vulnerabilities))]

\* tasks.py 114-116: the payload of the failed patch
FailedFields(err) ==
  [status |-> "failed", summary |-> err,
   ai_confidence_score |-> Absent, vulnerabilities_found |-> Absent]

\* tasks.py 90: float(scan_result.get("confidence_score", 0.0))
ResultConfidence(scan_result) ==
  Float(IF scan_result.confidence_score = Absent THEN Num(0)
        ELSE scan_result.confidence_score)

\* ------------------------------------------------------------------- tables
\* a scans row as trigger_scan and trigger_batch_scan insert it; the columns
\* the payload does not name start empty
ScanPayload(scan_id, device_id) ==
  [id |-> scan_id, device_id |-> device_id, status |-> "in_progress",
   summary |-> "", ai_confidence_score |-> Null, vulnerabilities_found |-> 0]

\* PATCH scans?id=eq.scan_id: the fields the payload carries replace the row's
ApplyPatch(row, data) ==
  [row EXCEPT !.status = data.status,
              !.summary = data.summary,
              !.ai_confidence_score =
                 IF data.ai_confidence_score = Absent THEN @ ELSE data.ai_confidence_score,
              !.vulnerabilities_found =
                 IF data.vulnerabilities_found = Absent THEN @
                 ELSE data.vulnerabilities_found.v]

\* a lookup that never finds the entry
GetVulnerabilities_Blind(cve_id) == SelectSeq(vulnerabilities, LAMBDA v : FALSE)

\* supabase.get("vulnerabilities", cve_id = eq.cve_id)
GetVulnerabilities(cve_id) == SelectSeq(vulnerabilities, LAMBDA v : v.cve_id = cve_id)

\* ------------------------------------------------------ the search client
\* one tick of the clock is 1 / TicksPerSecond seconds
rate_limit_delay == TicksPerSecond

\* the coroutines that call search_vulnerabilities on the instance
Callers == 1..MaxCallers

\* the wait after a 429 answer (external_apis_backup.py 148), in ticks
rate_limit_backoff == (TicksPerSecond + TicksPerSecond)

\* A dict returned by search_vulnerabilities: its keys and the value under
\* "error" ("" for the response payload, which has no such key).
SearchDict(keys, error) == [keys |-> keys, error |-> error]

NoReturn == SearchDict({}, "")

\* A value returned by filter_vulnerability_results: the value json.loads
\* parsed from the generated text, or one of the method's own dicts with
\* "vulnerability_found": False, given by its keys, the value under "error"
\* and the value under "raw_response".
Parsed(value) ==
  [parsed |-> TRUE, value |-> value, keys |-> {}, error |-> "", raw_response |-> <<>>]

Fallback(keys, error, raw_response) ==
  [parsed |-> FALSE, value |-> <<>>, keys |-> keys, error |-> error,
   raw_response |-> raw_response]

\* a response of the generative API: what client.post brought and, for a 200
\* with the candidates structure, the generated text
FilterResponse(kind, text) == [kind |-> kind, text |-> text]

\* the filter client before its call
NoFilter ==
  [pc |-> "idle", response |-> FilterResponse("none", <<>>),
   ret |-> Fallback({}, "", <<>>), posts |-> 0]

\* A caller outside search_vulnerabilities, with the outcome of its last call:
\* what client.get brought, the dict returned and the ticks spent sleeping
\* between the two.
NoCall ==
  [pc |-> "idle", wake |-> 0, outcome |-> "none", ret |-> NoReturn, waited |-> 0]

\* what the filter client was called with
FilterArgs(search_results, device_id) ==
  [search_results |-> search_results, device_id |-> device_id]

\* The local state of one run of run_web_ai_scan, with the locals of
\* scan_device: what the search request brought and the dict the search
\* returned, the arguments of the call of the filter client and the analysis
\* it returned.
NoRun ==
  [pc |-> "none", device |-> Devices[1], scan_result |-> NoResult, i |-> 0,
   vuln_id |-> 0, err |-> "", perr |-> FALSE, ret |-> "none", alone |-> TRUE,
   search_outcome |-> "none", search_ret |-> NoReturn,
   filter_args |-> FilterArgs(<<>>, ""),
   analysis |-> Fallback({}, "", <<>>)]

NoBatch ==
  [active |-> FALSE, requested |-> <<>>, device_ids |-> <<>>, initiated_scans |-> <<>>]

ScanIds == 1..Len(scans)

Running(s) == run[s].pc \notin {"none", "returned", "raised"}

NoResponse == [op |-> "none", device_ids |-> <<>>, status_code |-> 0, scan_ids |-> <<>>]

\* The HTTP response a trigger endpoint returns in the step just taken: the
\* request it answers, the status code, and the ids of the job descriptors in
\* a 202 body.  A step that returns no response leaves NoResponse.
Response(op, device_ids, status_code, scan_ids) ==
  [op |-> op, device_ids |-> device_ids, status_code |-> status_code,
   scan_ids |-> scan_ids]

\* the search client before its first call, as an instance of the class of
\* module m; time.time() is far past the initial _last_request_time of 0.0
InitSearch(m) ==
  /\ service = m
  /\ now = rate_limit_delay
  /\ last_request_time = 0
  /\ callers = [c \in Callers |-> NoCall]
  /\ requests = <<>>
  /\ filtering = NoFilter

\* The catalog starts with an entry for CVE-A and none for CVE-B.  The tables
\* scan_results and notifications are kept per scan id: the rows whose scan_id
\* (link) is that id, in the order they were inserted.
InitPipeline ==
  /\ scans = <<>>
  /\ patchLog = <<>>
  /\ run = <<>>
  /\ queue = {}
  /\ batch = NoBatch
  /\ vulnerabilities = <<[id |-> 1, cve_id |-> "CVE-A", severity |-> <<"L", "o", "w">>]>>
  /\ scan_results = <<>>
  /\ notifications = <<>>
  /\ response = NoResponse

Init == InitPipeline /\ InitSearch("external_apis")

\* ------------------------------------------------------- trigger endpoints
\* scan.py 58-67: a fresh uuid4 and the scans row posted under it
NewScan(device_id) ==
  /\ scans' = Append(scans, ScanPayload(Len(scans) + 1, device_id))
  /\ patchLog' = Append(patchLog, <<>>)
  /\ run' = Append(run, NoRun)
  /\ scan_results' = Append(scan_results, <<>>)
  /\ notifications' = Append(notifications, <<>>)

\* scan_web_ai_task.delay(scan_id, device)
Delay(scan_id, device) == queue' = queue \cup {[scan_id |-> scan_id, device |-> device]}

\* trigger_scan without the is_active check
trigger_scan_AnyDevice(device_id) ==
  /\ ~batch.active
  /\ Len(scans) < MaxScans
  /\ UNCHANGED <<batch, vulnerabilities, search>>
  /\ \E getOk, postOk, delayOk \in BOOLEAN :
       LET devices == GetDevices(device_id)
           status_code == IF ~getOk THEN 500
                          ELSE IF devices = <<>> THEN 404
                          ELSE IF ~postOk \/ ~delayOk THEN 500
                          ELSE 202
       IN IF ~getOk \/ devices = <<>> \/ ~postOk
            THEN /\ UNCHANGED <<scans, patchLog, run, scan_results, notifications, queue>>
                 /\ response' = Response("trigger_scan", <<device_id>>, status_code, <<>>)
            ELSE /\ NewScan(device_id)
                 /\ IF delayOk THEN Delay(Len(scans) + 1, devices[1])
                    ELSE UNCHANGED queue
                 /\ response' = Response("trigger_scan", <<device_id>>, status_code,
                                         IF delayOk THEN <<Len(scans) + 1>> ELSE <<>>)

\* trigger_scan with the work item enqueued before the row is posted
trigger_scan_EnqueueFirst(device_id) ==
  /\ ~batch.active
  /\ Len(scans) < MaxScans
  /\ UNCHANGED <<batch, vulnerabilities, search>>
  /\ \E getOk, postOk, delayOk \in BOOLEAN :
       LET devices == GetDevices(device_id)
           status_code == IF ~getOk THEN 500
                          ELSE IF devices = <<>> THEN 404
                          ELSE IF ~devices[1].is_active THEN 400
                          ELSE IF ~postOk \/ ~delayOk THEN 500
                          ELSE 202
       IN IF ~getOk \/ devices = <<>> \/ ~devices[1].is_active \/ ~delayOk
            THEN /\ UNCHANGED <<scans, patchLog, run, scan_results, notifications, queue>>
                 /\ response' = Response("trigger_scan", <<device_id>>, status_code, <<>>)
            ELSE /\ Delay(Len(scans) + 1, devices[1])
                 /\ IF postOk THEN NewScan(device_id)
                    ELSE UNCHANGED <<scans, patchLog, run, scan_results, notifications>>
                 /\ response' = Response("trigger_scan", <<device_id>>, status_code,
                                         IF postOk THEN <<Len(scans) + 1>> ELSE <<>>)

\* scan.py 50-70.  The handler is a coroutine that never awaits, so it runs
\* without interleaving with the other trigger handler.  An exception of the
\* persistence client or of the queue leaves the handler as a 500 response.
trigger_scan(device_id) ==
  /\ ~batch.active
  /\ Len(scans) < MaxScans
  /\ UNCHANGED <<batch, vulnerabilities, search>>
  /\ \E getOk, postOk, delayOk \in BOOLEAN :
       LET devices == GetDevices(device_id)
           status_code == IF ~getOk THEN 500
                          ELSE IF devices = <<>> THEN 404
                          ELSE IF ~devices[1].is_active THEN 400
                          ELSE IF ~postOk \/ ~delayOk THEN 500
                          ELSE 202
       IN IF ~getOk \/ devices = <<>> \/ ~devices[1].is_active \/ ~postOk
            THEN /\ UNCHANGED <<scans, patchLog, run, scan_results, notifications, queue>>
                 /\ response' = Response("trigger_scan", <<device_id>>, status_code, <<>>)
            ELSE /\ NewScan(device_id)
                 /\ IF delayOk THEN Delay(Len(scans) + 1, devices[1])
                    ELSE UNCHANGED queue
                 /\ response' = Response("trigger_scan", <<device_id>>, status_code,
                                         IF delayOk THEN <<Len(scans) + 1>> ELSE <<>>)

\* scan.py 80-87: an empty list is refused, any other request starts the loop
trigger_batch_scan(device_ids) ==
  /\ ~batch.active
  /\ UNCHANGED <<scans, patchLog, run, queue, vulnerabilities, scan_results,
                 notifications, search>>
  /\ IF device_ids = <<>>
       THEN /\ response' = Response("trigger_batch_scan", device_ids, 400, <<>>)
            /\ UNCHANGED batch
       ELSE /\ batch' = [active |-> TRUE, requested |-> device_ids,
                         device_ids |-> device_ids, initiated_scans |-> <<>>]
            /\ response' = NoResponse

\* the loop looks the device up first and skips an id that names no device
batch_iteration_SkipUnknown ==
  /\ batch.active
  /\ batch.device_ids # <<>>
  /\ Len(scans) < MaxScans
  /\ UNCHANGED <<vulnerabilities, search>>
  /\ LET device_id == Head(batch.device_ids)
         scan_id == Len(scans) + 1
         devices == GetDevices(device_id)
         raised == Response("trigger_batch_scan", batch.requested, 500, <<>>)
     IN \E postOk, getOk, delayOk \in BOOLEAN :
          IF ~getOk
            THEN /\ batch' = NoBatch
                 /\ response' = raised
                 /\ UNCHANGED <<scans, patchLog, run, scan_results, notifications, queue>>
          ELSE IF devices = <<>>
            THEN /\ batch' = [batch EXCEPT !.device_ids = Tail(@)]
                 /\ response' = NoResponse
                 /\ UNCHANGED <<scans, patchLog, run, scan_results, notifications, queue>>
          ELSE IF ~postOk
            THEN /\ batch' = NoBatch
                 /\ response' = raised
                 /\ UNCHANGED <<scans, patchLog, run, scan_results, notifications, queue>>
          ELSE /\ NewScan(device_id)
               /\ IF ~delayOk
                    THEN batch' = NoBatch /\ response' = raised /\ UNCHANGED queue
                  ELSE /\ Delay(scan_id, devices[1])
                       /\ response' = NoResponse
                       /\ batch' = [batch EXCEPT !.device_ids = Tail(@),
                                                 !.initiated_scans = Append(@, scan_id)]

\* scan.py 88-103: one iteration of the loop; an exception ends the request
batch_iteration ==
  /\ batch.active
  /\ batch.device_ids # <<>>
  /\ Len(scans) < MaxScans
  /\ UNCHANGED <<vulnerabilities, search>>
  /\ LET device_id == Head(batch.device_ids)
         scan_id == Len(scans) + 1
         devices == GetDevices(device_id)
         raised == Response("trigger_batch_scan", batch.requested, 500, <<>>)
     IN \E postOk, getOk, delayOk \in BOOLEAN :
          IF ~postOk
            THEN /\ batch' = NoBatch
                 /\ response' = raised
                 /\ UNCHANGED <<scans, patchLog, run, scan_results, notifications, queue>>
            ELSE /\ NewScan(device_id)
                 /\ IF ~getOk
                      THEN batch' = NoBatch /\ response' = raised /\ UNCHANGED queue
                    ELSE IF devices = <<>>
                      THEN /\ UNCHANGED queue
                           /\ response' = NoResponse
                           /\ batch' = [batch EXCEPT !.device_ids = Tail(@),
                                                     !.initiated_scans = Append(@, scan_id)]
                    ELSE IF ~delayOk
                      THEN batch' = NoBatch /\ response' = raised /\ UNCHANGED queue
                    ELSE /\ Delay(scan_id, devices[1])
                         /\ response' = NoResponse
                         /\ batch' = [batch EXCEPT !.device_ids = Tail(@),
                                                   !.initiated_scans = Append(@, scan_id)]

\* scan.py 104-108: the response is returned
batch_return ==
  /\ batch.active
  /\ batch.device_ids = <<>>
  /\ batch' = NoBatch
  /\ response' = Response("trigger_batch_scan", batch.requested, 202,
                          batch.initiated_scans)
  /\ UNCHANGED <<scans, patchLog, run, queue, vulnerabilities, scan_results,
                 notifications, search>>

\* ------------------------------------------------------- run_web_ai_scan
Candidate(s) == run[s].scan_result.vulnerabilities[run[s].i]

\* where the run goes when it reaches candidate i of the loop (tasks.py 49, 62, 95-112)
LoopPc(r, i) ==
  IF i > Len(r.scan_result.vulnerabilities)
    THEN IF r.device.user_id # "None" THEN "notify" ELSE "returned"
  ELSE IF HasCve(r.scan_result.vulnerabilities[i]) THEN "get_vuln"
  ELSE "post_result"

\* tasks.py 108-112, 117: the run returns its descriptor and its locals are gone
Return(r, status) ==
  [NoRun EXCEPT !.pc = "returned", !.ret = status, !.err = r.err, !.perr = r.perr,
                !.alone = r.alone]

Goto(r, i) ==
  IF LoopPc(r, i) = "returned" THEN Return(r, "completed")
  ELSE [r EXCEPT !.i = i, !.vuln_id = 0, !.pc = LoopPc(r, i)]

\* tasks.py 113: an exception inside the try block reaches the handler
Except(r, err, persistence) ==
  [r EXCEPT !.pc = "patch_failed", !.err = err, !.perr = @ \/ persistence]

\* tasks.py 10-12, 24-46: a worker takes the work item and runs the scan
scan_web_ai_task(s, results) ==
  /\ \E item \in queue :
       /\ item.scan_id = s
       /\ queue' = queue \ {item}
       /\ \E scan_result \in results :
            run' = [run EXCEPT ![s] = [@ EXCEPT !.pc = "patch_completed",
                                                !.device = item.device,
                                                !.scan_result = scan_result,
                                                !.alone = \A other \in ScanIds :
                                                            ~Running(other)]]
  /\ response' = NoResponse
  /\ UNCHANGED <<scans, patchLog, batch, vulnerabilities, scan_results, notifications,
                 search>>

\* tasks.py 48: supabase.patch("scans", {"id": scan_id}, update_fields)
patch_completed(s) ==
  /\ run[s].pc = "patch_completed"
  /\ response' = NoResponse
  /\ UNCHANGED search
  /\ UNCHANGED <<queue, batch, vulnerabilities, scan_results, notifications>>
  /\ LET update_fields == UpdateFields(run[s].scan_result)
     IN \E ok \in BOOLEAN :
          /\ patchLog' = [patchLog EXCEPT ![s] = Append(@, [data |-> update_fields, ok |-> ok])]
          /\ IF ok
               THEN /\ scans' = [scans EXCEPT ![s] = ApplyPatch(@, update_fields)]
                    /\ run' = [run EXCEPT ![s] = Goto(@, 1)]
               ELSE /\ UNCHANGED scans
                    /\ run' = [run EXCEPT ![s] = Except(@, "HTTPStatusError", TRUE)]

\* the lookup overwrites the severity of the entry it finds with the candidate's
get_vuln_Refresh(s) ==
  /\ run[s].pc = "get_vuln"
  /\ response' = NoResponse
  /\ UNCHANGED search
  /\ UNCHANGED <<scans, patchLog, queue, batch, scan_results, notifications>>
  /\ \E ok \in BOOLEAN :
       IF ok
         THEN LET existing == GetVulnerabilities(Candidate(s).cve_id)
              IN /\ run' = [run EXCEPT ![s] =
                              IF existing = <<>> THEN [@ EXCEPT !.pc = "post_vuln"]
                              ELSE [@ EXCEPT !.pc = "post_result",
                                             !.vuln_id = existing[1].id]]
                 /\ vulnerabilities' =
                      [k \in DOMAIN vulnerabilities |->
                         IF vulnerabilities[k].cve_id = Candidate(s).cve_id
                           THEN [vulnerabilities[k] EXCEPT
                                   !.severity = Severity(Candidate(s))]
                         ELSE vulnerabilities[k]]
         ELSE /\ run' = [run EXCEPT ![s] = Except(@, "HTTPStatusError", TRUE)]
              /\ UNCHANGED vulnerabilities

\* the lookup always answers that the identifier has no entry
get_vuln_Forgetful(s) ==
  /\ run[s].pc = "get_vuln"
  /\ response' = NoResponse
  /\ UNCHANGED search
  /\ UNCHANGED <<scans, patchLog, queue, batch, vulnerabilities, scan_results,
                 notifications>>
  /\ \E ok \in BOOLEAN :
       IF ok
         THEN run' = [run EXCEPT ![s] = [@ EXCEPT !.pc = "post_vuln"]]
         ELSE run' = [run EXCEPT ![s] = Except(@, "HTTPStatusError", TRUE)]

\* tasks.py 63-66, 80-81: the catalog lookup
get_vuln(s) ==
  /\ run[s].pc = "get_vuln"
  /\ response' = NoResponse
  /\ UNCHANGED search
  /\ UNCHANGED <<scans, patchLog, queue, batch, vulnerabilities, scan_results,
                 notifications>>
  /\ \E ok \in BOOLEAN :
       IF ok
         THEN LET existing == GetVulnerabilities(Candidate(s).cve_id)
              IN run' = [run EXCEPT ![s] =
                           IF existing = <<>> THEN [@ EXCEPT !.pc = "post_vuln"]
                           ELSE [@ EXCEPT !.pc = "post_result",
                                          !.vuln_id = existing[1].id]]
         ELSE run' = [run EXCEPT ![s] = Except(@, "HTTPStatusError", TRUE)]

\* tasks.py 67-79: the catalog insert; the response body may be empty
post_vuln(s) ==
  /\ run[s].pc = "post_vuln"
  /\ response' = NoResponse
  /\ UNCHANGED search
  /\ UNCHANGED <<scans, patchLog, queue, batch, scan_results, notifications>>
  /\ \E ok \in BOOLEAN :
       IF ok
         THEN LET id == Len(vulnerabilities) + 1
              IN /\ vulnerabilities' =
                      Append(vulnerabilities,
                             [id |-> id, cve_id |-> Candidate(s).cve_id,
                              severity |-> Severity(Candidate(s))])
                 /\ \E inserted \in {<<>>, <<id>>} :
                      run' = [run EXCEPT ![s] =
                                [@ EXCEPT !.pc = "post_result",
                                          !.vuln_id = IF inserted # <<>> THEN inserted[1]
                                                      ELSE 0]]
         ELSE /\ UNCHANGED vulnerabilities
              /\ run' = [run EXCEPT ![s] = Except(@, "HTTPStatusError", TRUE)]

\* tasks.py 83-94: the finding row
post_result(s) ==
  /\ run[s].pc = "post_result"
  /\ response' = NoResponse
  /\ UNCHANGED search
  /\ UNCHANGED <<scans, patchLog, queue, batch, vulnerabilities, notifications>>
  /\ LET ai_confidence_score == ResultConfidence(run[s].scan_result)
     IN IF ~ai_confidence_score.ok
          THEN /\ UNCHANGED scan_results
               /\ run' = [run EXCEPT ![s] = Except(@, ai_confidence_score.err, FALSE)]
          ELSE \E ok \in BOOLEAN :
                 IF ok
                   THEN /\ scan_results' =
                             [scan_results EXCEPT ![s] =
                                Append(@, [scan_id |-> s,
                                           vulnerability_id |-> run[s].vuln_id,
                                           severity |-> Severity(Candidate(s)),
                                           ai_confidence_score |->
                                             Num(ai_confidence_score.v)])]
                        /\ run' = [run EXCEPT ![s] = Goto(@, run[s].i + 1)]
                   ELSE /\ UNCHANGED scan_results
                        /\ run' = [run EXCEPT ![s] = Except(@, "HTTPStatusError", TRUE)]

\* tasks.py 96-112: the notification of the device's owner
notify(s) ==
  /\ run[s].pc = "notify"
  /\ response' = NoResponse
  /\ UNCHANGED search
  /\ UNCHANGED <<scans, patchLog, queue, batch, vulnerabilities, scan_results>>
  /\ \E ok \in BOOLEAN :
       IF ok
         THEN /\ notifications' =
                   [notifications EXCEPT ![s] =
                      Append(@, [user_id |-> run[s].device.user_id, link |-> s])]
              /\ run' = [run EXCEPT ![s] = Return(@, "completed")]
         ELSE /\ UNCHANGED notifications
              /\ run' = [run EXCEPT ![s] = Except(@, "HTTPStatusError", TRUE)]


\* the failed patch without its id filter: it reaches every row of the table
patch_failed_AllRows(s) ==
  /\ run[s].pc = "patch_failed"
  /\ response' = NoResponse
  /\ UNCHANGED search
  /\ UNCHANGED <<queue, batch, vulnerabilities, scan_results, notifications>>
  /\ LET data == FailedFields(run[s].err)
     IN \E ok \in BOOLEAN :
          /\ patchLog' = [patchLog EXCEPT ![s] = Append(@, [data |-> data, ok |-> ok])]
          /\ IF ok
               THEN /\ scans' = [k \in DOMAIN scans |-> ApplyPatch(scans[k], data)]
                    /\ run' = [run EXCEPT ![s] = Return(@, "failed")]
               ELSE /\ UNCHANGED scans
                    /\ run' = [run EXCEPT ![s] =
                                 [Return(@, "none") EXCEPT !.pc = "raised", !.perr = TRUE]]

\* tasks.py 113-117: the handler patches the job failed; its own exception propagates
patch_failed(s) ==
  /\ run[s].pc = "patch_failed"
  /\ response' = NoResponse
  /\ UNCHANGED search
  /\ UNCHANGED <<queue, batch, vulnerabilities, scan_results, notifications>>
  /\ LET data == FailedFields(run[s].err)
     IN \E ok \in BOOLEAN :
          /\ patchLog' = [patchLog EXCEPT ![s] = Append(@, [data |-> data, ok |-> ok])]
          /\ IF ok
               THEN /\ scans' = [scans EXCEPT ![s] = ApplyPatch(@, data)]
                    /\ run' = [run EXCEPT ![s] = Return(@, "failed")]
               ELSE /\ UNCHANGED scans
                    /\ run' = [run EXCEPT ![s] =
                                 [Return(@, "none") EXCEPT !.pc = "raised", !.perr = TRUE]]

\* the steps of the runs, for any job
Worker ==
  \/ \E s \in ScanIds : patch_completed(s)
  \/ \E s \in ScanIds : get_vuln(s)
  \/ \E s \in ScanIds : post_vuln(s)
  \/ \E s \in ScanIds : post_result(s)
  \/ \E s \in ScanIds : notify(s)
  \/ \E s \in ScanIds : patch_failed(s)

Trigger ==
  \/ \E device_id \in DeviceIds : trigger_scan(device_id)
  \/ \E device_ids \in SeqsUpTo({"d1", "dx"}, MaxBatch) : trigger_batch_scan(device_ids)
  \/ batch_iteration
  \/ batch_return

\* workers run the jobs in parallel
Next ==
  \/ Trigger
  \/ \E s \in ScanIds : scan_web_ai_task(s, ScanResults)
  \/ Worker

Spec == Init /\ [][Next]_vars

\* One worker: a job starts only when no other job is running.  The
\* specifications below vary one part of the analysis result each and create
\* their jobs through trigger_scan.
solo_task(s, results) ==
  /\ \A other \in ScanIds : ~Running(other)
  /\ scan_web_ai_task(s, results)

solo_trigger ==
  /\ Len(scans) < MaxSoloScans
  /\ \E device_id \in DeviceIds : trigger_scan(device_id)

NextConfidence ==
  \/ solo_trigger
  \/ \E s \in ScanIds : solo_task(s, ConfidenceResults)
  \/ Worker

SpecConfidence == Init /\ [][NextConfidence]_vars

NextSeverity ==
  \/ solo_trigger
  \/ \E s \in ScanIds : solo_task(s, SeverityResults)
  \/ Worker

SpecSeverity == Init /\ [][NextSeverity]_vars

NextCatalog ==
  \/ solo_trigger
  \/ \E s \in ScanIds : solo_task(s, CatalogResults)
  \/ Worker

SpecCatalog == Init /\ [][NextCatalog]_vars

\* Workers in parallel on jobs created through trigger_scan for the device
\* d1, each analysis result naming the new identifier CVE-B in both of its candidates.
RaceResults ==
  {[confidence_score |-> Num(9), summary |-> "ai summary",
    vulnerabilities |-> <<candidate, candidate>>] :
     candidate \in Candidates({"CVE-B"}, {Str(high)})}

race_trigger ==
  /\ Len(scans) < MaxRaceScans
  /\ trigger_scan("d1")

NextRace ==
  \/ race_trigger
  \/ \E s \in ScanIds : scan_web_ai_task(s, RaceResults)
  \/ Worker

SpecRace == Init /\ [][NextRace]_vars

\* Jobs created through the batch endpoint, for the device d1 and the unknown
\* id dx, and one worker.
NextBatch ==
  \/ \E device_ids \in SeqsUpTo({"d1", "dx"}, MaxBatch) : trigger_batch_scan(device_ids)
  \/ batch_iteration
  \/ batch_return
  \/ \E s \in ScanIds : solo_task(s, ScanResults)
  \/ Worker

SpecBatch == Init /\ [][NextBatch]_vars

\* The trigger endpoints alone, for every device id and every batch of them;
\* the work items wait on the queue.
NextTrigger ==
  \/ \E device_id \in DeviceIds : trigger_scan(device_id)
  \/ \E device_ids \in SeqsUpTo(DeviceIds, MaxBatch) : trigger_batch_scan(device_ids)
  \/ batch_iteration
  \/ batch_return

SpecTrigger == Init /\ [][NextTrigger]_vars

\* ------------------------------------------------------------ read endpoints
\* scan.py 112-144: GET / reads the scans table and returns a page of it
list_scans ==
  /\ \E getOk \in BOOLEAN :
       response' = Response("list_scans", <<>>, IF getOk THEN 200 ELSE 500, <<>>)
  /\ UNCHANGED <<scans, patchLog, run, queue, batch, vulnerabilities, scan_results,
                 notifications, search>>

\* scan.py 148-157: GET /{scan_id} reads the row and its scan_results rows;
\* the results are attached to the dict returned, not to the row
get_scan(scan_id) ==
  /\ \E getOk \in BOOLEAN :
       response' = Response("get_scan", <<>>,
                            IF ~getOk THEN 500
                            ELSE IF scan_id \in ScanIds THEN 200 ELSE 404,
                            IF getOk /\ scan_id \in ScanIds THEN <<scan_id>> ELSE <<>>)
  /\ UNCHANGED <<scans, patchLog, run, queue, batch, vulnerabilities, scan_results,
                 notifications, search>>

\* The endpoints of scan.py and one worker: requests arrive while a job runs.
\* The jobs are for the device d1 and the unknown id dx, and the analysis
\* result names the new identifier CVE-B in its one candidate.
FrameResults ==
  {[confidence_score |-> Num(9), summary |-> "ai summary",
    vulnerabilities |-> <<candidate>>] :
     candidate \in Candidates({"CVE-B"}, {Str(high)})}

frame_trigger ==
  /\ Len(scans) < MaxFrameScans
  /\ \E device_id \in {"d1", "dx"} : trigger_scan(device_id)

frame_batch ==
  /\ Len(scans) < MaxFrameScans
  /\ \E device_ids \in SeqsUpTo({"d1", "dx"}, MaxBatch) : trigger_batch_scan(device_ids)

frame_iteration ==
  /\ Len(scans) < MaxFrameScans
  /\ batch_iteration

NextFrame ==
  \/ frame_trigger
  \/ frame_batch
  \/ frame_iteration
  \/ batch_return
  \/ list_scans
  \/ \E scan_id \in 1..MaxScans : get_scan(scan_id)
  \/ \E s \in ScanIds : solo_task(s, FrameResults)
  \/ Worker

SpecFrame == Init /\ [][NextFrame]_vars

\* ------------------------------------------------- BraveSearchService
pipeline ==
  <<scans, patchLog, run, queue, batch, vulnerabilities, scan_results, notifications,
    response>>

\* the two modules that define BraveSearchService
Services == {"external_apis", "external_apis_backup"}

\* external_apis.py 62-68, external_apis_backup.py 82-88: client.get sends the
\* outbound request
Send(c) == requests' = Append(requests, [caller |-> c, at |-> now])

\* external_apis_backup.py 32-42: the time still to wait, 0 when none
SleepTime ==
  LET time_since_last_request == now - last_request_time
  IN IF time_since_last_request < rate_limit_delay
       THEN rate_limit_delay - time_since_last_request
     ELSE 0

\* A caller enters search_vulnerabilities.  The class of external_apis.py
\* (23-68) sends the request at once; the class of external_apis_backup.py
\* (46-59) first runs _wait_for_rate_limit (32-44), which runs up to its
\* await asyncio.sleep without yielding to another coroutine.
enter_search(c) ==
  /\ callers[c].pc = "idle"
  /\ Len(requests) + Cardinality({d \in Callers : callers[d].pc = "sleeping"})
       < MaxRequests
  /\ UNCHANGED <<service, now, filtering>>
  /\ IF service = "external_apis_backup" /\ SleepTime > 0
       THEN /\ callers' = [callers EXCEPT ![c] = [NoCall EXCEPT !.pc = "sleeping",
                                                                !.wake = now + SleepTime]]
            /\ UNCHANGED <<last_request_time, requests>>
       ELSE /\ last_request_time' = IF service = "external_apis_backup" THEN now
                                    ELSE last_request_time
            /\ Send(c)
            /\ callers' = [callers EXCEPT ![c] = [NoCall EXCEPT !.pc = "requesting"]]

\* a call of search_vulnerabilities by a coroutine of the event loop
search_vulnerabilities(c) == enter_search(c) /\ UNCHANGED pipeline

\* external_apis_backup.py 42-44, 59-88: asyncio.sleep returns no earlier than
\* asked; the caller stamps _last_request_time and sends its request
wake_up(c) ==
  /\ callers[c].pc = "sleeping"
  /\ now >= callers[c].wake
  /\ last_request_time' = now
  /\ Send(c)
  /\ callers' = [callers EXCEPT ![c] = [NoCall EXCEPT !.pc = "requesting"]]
  /\ UNCHANGED <<pipeline, service, now, filtering>>

\* What client.get brings: the HTTP status of the response, a timeout
\* (httpx.TimeoutException) or another exception. A 429 comes with a body
\* that the rate-limit logging can read, or with the body {"error": null},
\* on which '"meta" in rate_limit_info.get("error", {})' raises a TypeError.
SearchOutcomes ==
  {"200", "301", "401", "429", "429_null", "500", "timeout", "exception"}

\* the outcomes that are a response with status 429
RateLimited == {"429", "429_null"}

\* the body of every response is returned as the payload, whatever the status
SearchReturn_AnyStatusIsPayload(m, outcome) ==
  IF outcome \in {"timeout", "exception"} THEN SearchDict({"error"}, outcome)
  ELSE SearchDict({"web"}, "")

\* external_apis.py 74-107 and external_apis_backup.py 94-165: the dict
\* search_vulnerabilities of module m returns for an outcome
SearchReturn(m, outcome) ==
  CASE outcome = "200" -> SearchDict({"web"}, "")
    [] outcome = "401" -> SearchDict({"error"}, "invalid_api_key")
    [] outcome = "429" ->
         IF m = "external_apis_backup"
           THEN SearchDict({"error", "details", "retry_after"}, "rate_limit_exceeded")
         ELSE SearchDict({"error"}, "rate_limit_exceeded")
    [] outcome = "429_null" ->
         IF m = "external_apis_backup"
           THEN SearchDict({"error"}, "str(e)")
         ELSE SearchDict({"error"}, "rate_limit_exceeded")
    [] outcome = "301" ->
         IF m = "external_apis_backup"
           THEN SearchDict({"error", "details"}, "url_redirect")
         ELSE SearchDict({"error"}, "api_error_301")
    [] outcome = "500" -> SearchDict({"error"}, "api_error_500")
    [] outcome = "timeout" -> SearchDict({"error"}, "timeout")
    [] OTHER -> SearchDict({"error"}, "str(e)")

\* external_apis_backup.py 146-148: only that class sleeps on a 429
SleepsOnRateLimit(m, outcome) == m = "external_apis_backup" /\ outcome = "429"

\* the response (or the timeout) arrives; search_vulnerabilities returns its
\* dict, after the sleep of the 429 branch where there is one
client_get(c) ==
  /\ callers[c].pc = "requesting"
  /\ \E outcome \in SearchOutcomes :
       callers' = [callers EXCEPT ![c] =
                     IF SleepsOnRateLimit(service, outcome)
                       THEN [@ EXCEPT !.pc = "throttled", !.outcome = outcome,
                                      !.wake = now + rate_limit_backoff]
                     ELSE [@ EXCEPT !.pc = "idle", !.outcome = outcome,
                                    !.ret = SearchReturn(service, outcome)]]
  /\ UNCHANGED <<pipeline, service, now, last_request_time, requests, filtering>>

\* after the sleep of the 429 branch the request is sent once more
throttle_retry(c) ==
  /\ callers[c].pc = "throttled"
  /\ now >= callers[c].wake
  /\ Send(c)
  /\ callers' = [callers EXCEPT ![c] = [NoCall EXCEPT !.pc = "requesting"]]
  /\ UNCHANGED <<pipeline, service, now, last_request_time, filtering>>

\* external_apis_backup.py 148-154: asyncio.sleep(2.0) is over and the 429
\* dict is returned
throttle_return(c) ==
  /\ callers[c].pc = "throttled"
  /\ now >= callers[c].wake
  /\ callers' = [callers EXCEPT ![c] =
                   [@ EXCEPT !.pc = "idle", !.wake = 0,
                             !.ret = SearchReturn(service, callers[c].outcome),
                             !.waited = now - (callers[c].wake - rate_limit_backoff)]]
  /\ UNCHANGED <<pipeline, service, now, last_request_time, requests, filtering>>

\* time passes
tick ==
  /\ now < MaxTime
  /\ now' = now + 1
  /\ UNCHANGED <<pipeline, service, last_request_time, callers, requests, filtering>>

\* coroutines of one event loop share the instance
NextSearch ==
  \/ \E c \in Callers : search_vulnerabilities(c)
  \/ \E c \in Callers : wake_up(c)
  \/ \E c \in Callers : client_get(c)
  \/ \E c \in Callers : throttle_return(c)
  \/ tick

\* the instance is of either class
InitAnyService == \E m \in Services : InitPipeline /\ InitSearch(m)

SpecSearch == InitAnyService /\ [][NextSearch]_vars

\* each call is awaited before the next starts
sequential_call(c) ==
  /\ \A d \in Callers : callers[d].pc = "idle"
  /\ search_vulnerabilities(c)

NextSequential ==
  \/ \E c \in Callers : sequential_call(c)
  \/ \E c \in Callers : wake_up(c)
  \/ \E c \in Callers : client_get(c)
  \/ \E c \in Callers : throttle_return(c)
  \/ tick

SpecSequential == InitAnyService /\ [][NextSequential]_vars

\* ------------------------------------------------------------ filter client
\* GeminiAIService.filter_vulnerability_results of external_apis.py (119-202)
\* and of external_apis_backup.py (175-273).  A generated text is a sequence
\* of characters over the backtick, the letters of "json", two whitespace
\* characters, the digit 1 and the braces.
Whitespace == {" ", "\n"}

\* three backticks; the character is written "backtick"
Fence == <<"backtick", "backtick", "backtick">>

JsonFence == Fence \o <<"j", "s", "o", "n">>

\* str.lstrip, str.rstrip and str.strip
RECURSIVE lstrip(_)
lstrip(t) == IF t # <<>> /\ Head(t) \in Whitespace THEN lstrip(Tail(t)) ELSE t

RECURSIVE rstrip(_)
rstrip(t) ==
  IF t # <<>> /\ t[Len(t)] \in Whitespace THEN rstrip(SubSeq(t, 1, Len(t) - 1)) ELSE t

strip(t) == rstrip(lstrip(t))

\* str.startswith and str.endswith
startswith(t, prefix) == Len(t) >= Len(prefix) /\ SubSeq(t, 1, Len(prefix)) = prefix

endswith(t, suffix) ==
  Len(t) >= Len(suffix) /\ SubSeq(t, Len(t) - Len(suffix) + 1, Len(t)) = suffix

\* the slice t[a:-b]
Slice(t, a, b) == SubSeq(t, a + 1, Len(t) - b)

\* The members of the object the prompt asks for (external_apis.py 204-250,
\* external_apis_backup.py 275-322), each written as one character: the flag
\* with its value, an error key, and a vulnerabilities list with a candidate.
Members == {"vulnerability_found:true", "vulnerability_found:false", "error", "vulnerabilities"}

\* json.loads over these characters: a document is a number or an object of
\* members, with whitespace allowed around it and between the braces
IsNumber(doc) == doc # <<>> /\ \A k \in 1..Len(doc) : doc[k] = "1"

IsObject(doc) ==
  /\ Len(doc) >= 2
  /\ Head(doc) = "{"
  /\ doc[Len(doc)] = "}"
  /\ \A k \in 2..(Len(doc) - 1) : doc[k] \in Whitespace \cup Members

\* json.loads raises JSONDecodeError
JSONDecodeError(t) == ~(IsNumber(strip(t)) \/ IsObject(strip(t)))

\* the value json.loads returns: the number, or the object with its members
json_loads(t) ==
  IF IsNumber(strip(t)) THEN strip(t)
  ELSE SelectSeq(strip(t), LAMBDA ch : ch \notin Whitespace)

\* external_apis_backup.py 238-250: the text json.loads is given; the class
\* of external_apis.py (187) gives it result_text as it is
clean_text(m, result_text) ==
  IF m = "external_apis_backup"
    THEN LET stripped == strip(result_text)
         IN IF startswith(stripped, JsonFence) /\ endswith(stripped, Fence)
              THEN strip(Slice(stripped, 7, 3))
            ELSE IF startswith(stripped, Fence) /\ endswith(stripped, Fence)
              THEN strip(Slice(stripped, 3, 3))
            ELSE stripped
  ELSE result_text

\* the raw_response of the mutant below: the text after stripping
parse_generated_text_RawStripped(m, result_text) ==
  IF JSONDecodeError(clean_text(m, result_text))
    THEN Fallback({"vulnerability_found", "raw_response"}, "", clean_text(m, result_text))
  ELSE Parsed(json_loads(clean_text(m, result_text)))

\* external_apis.py 185-194, external_apis_backup.py 236-265: the generated
\* text is parsed, and a text json.loads refuses is returned under raw_response
parse_generated_text(m, result_text) ==
  IF JSONDecodeError(clean_text(m, result_text))
    THEN IF m = "external_apis_backup"
           THEN Fallback({"vulnerability_found", "error", "raw_response"},
                         "json_parse_error", result_text)
         ELSE Fallback({"vulnerability_found", "raw_response"}, "", result_text)
  ELSE Parsed(json_loads(clean_text(m, result_text)))

\* the responses that make the method raise inside its try: client.post
\* raises (timeout, connection error), the 200 body lacks the candidates
\* structure (KeyError), or the generated text is null (TypeError in
\* json.loads, AttributeError in strip)
FilterExceptions == {"exception", "no_candidates", "null_text"}

\* external_apis.py 134-202, external_apis_backup.py 188-273: the value
\* filter_vulnerability_results returns for a response
filter_return(m, resp) ==
  CASE resp.kind = "text" -> parse_generated_text(m, resp.text)
    [] resp.kind = "non_200" -> Fallback({"vulnerability_found", "error"}, "API error", <<>>)
    [] OTHER -> Fallback({"vulnerability_found", "error"}, "str(e)", <<>>)

\* the generated texts: a body, with or without fences and whitespace around it
Pads == SeqsUpTo(Whitespace, MaxPad)

Bodies == {<<"1">>, <<"{", "}">>, <<"{">>, <<>>}

GeneratedTexts ==
  {p1 \o open \o p2 \o body \o p3 \o close \o p4 :
     p1 \in Pads, p2 \in Pads, p3 \in Pads, p4 \in Pads, body \in Bodies,
     open \in {<<>>, JsonFence, Fence, Fence \o JsonFence},
     close \in {<<>>, Fence, Fence \o Fence}}

FilterResponses ==
  {FilterResponse(kind, <<>>) : kind \in FilterExceptions \cup {"non_200"}}
    \cup {FilterResponse("text", text) : text \in GeneratedTexts}

\* external_apis.py 157-163, external_apis_backup.py 214-220: the method
\* posts its one request, receives resp and returns
filter_call(resp) ==
  filtering' = [pc |-> "returned", response |-> resp,
                ret |-> filter_return(service, resp),
                posts |-> filtering.posts + 1]

\* one call of filter_vulnerability_results
filter_vulnerability_results ==
  /\ filtering.pc = "idle"
  /\ \E resp \in FilterResponses : filter_call(resp)
  /\ UNCHANGED <<pipeline, service, now, last_request_time, callers, requests>>

NextFilter == filter_vulnerability_results

SpecFilter == InitAnyService /\ [][NextFilter]_vars

\* ------------------------------------------------------------ orchestration
\* The whole scan of one job.  run_web_ai_scan calls
\* vulnerability_scanner.scan_device (tasks.py 7, 30), which calls the search
\* client, then the filter client with the result set returned (the empty one
\* when the search failed) and the device, and extracts the scan result from
\* the analysis, an analysis with an error key or with vulnerability_found
\* false counting as no vulnerabilities.

\* tasks.py 10-12, 24-30: a worker takes the work item and calls scan_device
run_web_ai_scan(s) ==
  /\ \A other \in ScanIds : ~Running(other)
  /\ \E item \in queue :
       /\ item.scan_id = s
       /\ queue' = queue \ {item}
       /\ run' = [run EXCEPT ![s] = [@ EXCEPT !.pc = "scan_device",
                                           !.device = item.device]]
  /\ response' = NoResponse
  /\ UNCHANGED <<scans, patchLog, batch, vulnerabilities, scan_results, notifications,
                 search>>

\* scan_device calls search_vulnerabilities
scan_device_search(s) ==
  /\ run[s].pc = "scan_device"
  /\ enter_search(s)
  /\ run' = [run EXCEPT ![s] = [@ EXCEPT !.pc = "searching"]]
  /\ response' = NoResponse
  /\ UNCHANGED <<scans, patchLog, queue, batch, vulnerabilities, scan_results,
                 notifications>>

\* the result sets scan_device can take from what the search returned: the
\* results of the payload, none or some, and none from an error dict
SearchResults(ret) == IF "web" \in ret.keys THEN {<<>>, <<"result">>} ELSE {<<>>}

\* the keys of an analysis
HasMember(analysis, member) ==
  analysis.parsed /\ \E k \in 1..Len(analysis.value) : analysis.value[k] = member

ErrorKey(analysis) ==
  IF analysis.parsed THEN HasMember(analysis, "error") ELSE "error" \in analysis.keys

NotFound(analysis) ==
  IF analysis.parsed THEN HasMember(analysis, "vulnerability_found:false")
  ELSE "vulnerability_found" \in analysis.keys

\* the vulnerabilities list of an analysis that has one
AnalysisVulnerabilities(analysis) ==
  IF HasMember(analysis, "vulnerabilities")
    THEN <<[cve_id |-> "CVE-B", severity |-> Str(high)]>>
  ELSE <<>>

\* the scan result scan_device extracts from the analysis
ExtractResult(analysis) ==
  [confidence_score |-> Absent, summary |-> "",
   vulnerabilities |-> IF ErrorKey(analysis) \/ NotFound(analysis) THEN <<>>
                       ELSE AnalysisVulnerabilities(analysis)]

\* the generated texts of the whole scan: objects of members, one of them
\* fenced, and a text that is no JSON
AnalysisTexts ==
  { <<"{", "vulnerability_found:true", "vulnerabilities", "}">>,
    <<"{", "vulnerability_found:false", "vulnerabilities", "}">>,
    <<"{", "vulnerability_found:true", "error", "vulnerabilities", "}">>,
    <<"{", "vulnerability_found:false", "}">>,
    <<"{", "}">>,
    <<"{">>,
    Fence \o <<"{", "vulnerability_found:true", "vulnerabilities", "}">> \o Fence }

AnalysisResponses ==
  {FilterResponse("non_200", <<>>), FilterResponse("exception", <<>>)}
    \cup {FilterResponse("text", text) : text \in AnalysisTexts}

\* scan_device takes the dict the search returned, calls
\* filter_vulnerability_results and returns the scan result (tasks.py 30)
scan_device_filter(s) ==
  /\ run[s].pc = "searching"
  /\ callers[s].pc = "idle"
  /\ callers[s].outcome # "none"
  /\ callers' = [callers EXCEPT ![s] = NoCall]
  /\ \E search_results \in SearchResults(callers[s].ret), resp \in AnalysisResponses :
       /\ filter_call(resp)
       /\ run' = [run EXCEPT ![s] =
                    [@ EXCEPT !.pc = "patch_completed",
                              !.scan_result = ExtractResult(filter_return(service, resp)),
                              !.search_outcome = callers[s].outcome,
                              !.search_ret = callers[s].ret,
                              !.filter_args = FilterArgs(search_results, run[s].device.id),
                              !.analysis = filter_return(service, resp)]]
  /\ response' = NoResponse
  /\ UNCHANGED <<scans, patchLog, queue, batch, vulnerabilities, scan_results,
                 notifications, service, now, last_request_time, requests>>

\* time passes while a call of the search client waits
waiting_tick ==
  /\ \E c \in Callers : callers[c].pc \in {"sleeping", "throttled"}
  /\ tick

orchestrated_trigger ==
  /\ Len(scans) < MaxOrchestrated
  /\ \E device_id \in DeviceIds : trigger_scan(device_id)

NextScan ==
  \/ orchestrated_trigger
  \/ \E s \in ScanIds : run_web_ai_scan(s)
  \/ \E s \in ScanIds : scan_device_search(s)
  \/ \E c \in Callers : wake_up(c)
  \/ \E c \in Callers : client_get(c)
  \/ \E c \in Callers : throttle_return(c)
  \/ waiting_tick
  \/ \E s \in ScanIds : scan_device_filter(s)
  \/ Worker

\* the client instances are module globals of the worker process
\* (external_apis.py 253-254): the search instance is fresh, or an earlier
\* task has just used it
InitScan ==
  \E m \in Services, t \in {0, rate_limit_delay} :
    /\ InitPipeline
    /\ service = m
    /\ now = rate_limit_delay
    /\ last_request_time = t
    /\ callers = [c \in Callers |-> NoCall]
    /\ requests = <<>>
    /\ filtering = NoFilter

SpecScan == InitScan /\ [][NextScan]_vars

\* ------------------------------------------------------------------ claims
Ended(s) == run[s].pc \in {"returned", "raised"}

\* the statuses the backend accepted for scan s, in order
StatusWrites(s) ==
  LET accepted == SelectSeq(patchLog[s], LAMBDA p : p.ok)
  IN [k \in 1..Len(accepted) |-> accepted[k].data.status]

\* C1: a scan job's status is written at most once after its creation as
\* in_progress, and a job written completed is never later written failed.
C1_StatusWrittenOnce ==
  \A s \in ScanIds :
    /\ Len(StatusWrites(s)) <= 1
    /\ (Len(StatusWrites(s)) = 0 => scans[s].status = "in_progress")

\* C2: every job whose run ended (returned or raised) has status completed or
\* failed; it is never left in_progress.
C2_EndedIsTerminal ==
  \A s \in ScanIds : Ended(s) => scans[s].status \in {"completed", "failed"}

\* C3: no state has a job with status completed while finding rows of that job
\* are still to be written.
C3_CompletedAfterFindings ==
  \A s \in ScanIds :
    scans[s].status = "completed" =>
      ~(run[s].pc \in {"get_vuln", "post_vuln", "post_result"})

\* C4: when the run has finished, vulnerabilities_found equals the number of
\* scan_results rows written for the job.
C4_FoundEqualsWritten ==
  \A s \in ScanIds :
    run[s].pc = "returned" => scans[s].vulnerabilities_found = Len(scan_results[s])

\* C5: when a persistence operation raised during the run, the job ends failed
\* with the exception text as summary and the run returns the failure
\* descriptor instead of raising.
C5_FaultEndsFailed ==
  \A s \in ScanIds :
    (Ended(s) /\ run[s].perr) =>
      /\ run[s].pc = "returned"
      /\ run[s].ret = "failed"
      /\ scans[s].status = "failed"
      /\ scans[s].summary = run[s].err

\* C6: a run in which no persistence operation raised ends completed, for
\* every analysis result.
C6_NoFaultEndsCompleted ==
  \A s \in ScanIds :
    (Ended(s) /\ ~run[s].perr) =>
      /\ run[s].ret = "completed"
      /\ scans[s].status = "completed"

Last(q) == q[Len(q)]

\* what the completed patch is to carry for a job-level confidence score
C7_Expected(confidence_score) ==
  CASE confidence_score = Num(9) -> Num(9)
    [] confidence_score = Str(<<"0", ".", "7">>) -> Num(7)
    [] confidence_score = Str(<<"1">>) -> Num(10)
    [] OTHER -> Absent

\* C7: the completed patch is always issued with status completed; it carries
\* the confidence score when that is a valid number and no confidence field
\* when the score is missing, null or not convertible.
C7_PatchConfidence ==
  [][\A s \in ScanIds :
       (run[s].pc = "patch_completed" /\ run'[s] # run[s]) =>
         /\ Len(patchLog'[s]) = Len(patchLog[s]) + 1
         /\ Last(patchLog'[s]).data.status = "completed"
         /\ Last(patchLog'[s]).data.ai_confidence_score =
              C7_Expected(run[s].scan_result.confidence_score)]_vars

\* a non-numeric score was omitted from an accepted completed patch
C7_Witness ==
  \E s \in ScanIds :
    /\ run[s].scan_result.confidence_score = Str(high)
    /\ Len(patchLog[s]) = 1
    /\ patchLog[s][1].ok
    /\ patchLog[s][1].data.status = "completed"
    /\ patchLog[s][1].data.ai_confidence_score = Absent
    /\ scans[s].status = "completed"
    /\ scans[s].ai_confidence_score = Null

\* C8: with a job-level confidence score that is absent, null or not a number,
\* every finding row is written without a confidence score and the finding
\* write does not raise.
C8_FindingConfidenceOmitted ==
  \A s \in ScanIds :
    (Running(s) /\ C7_Expected(run[s].scan_result.confidence_score) = Absent) =>
      /\ \A k \in 1..Len(scan_results[s]) :
           scan_results[s][k].ai_confidence_score = Absent
      /\ ~(run[s].pc = "patch_failed" /\ run[s].err \in {"TypeError", "ValueError"})

CasePairs ==
  {<<"u", "U">>, <<"n", "N">>, <<"k", "K">>, <<"o", "O">>, <<"w", "W">>}

C9_SameIgnoringCase(a, b) ==
  /\ Len(a) = Len(b)
  /\ \A k \in 1..Len(a) :
       a[k] = b[k] \/ <<a[k], b[k]>> \in CasePairs \/ <<b[k], a[k]>> \in CasePairs

\* the severity the claim prescribes for a candidate's severity
C9_Expected(severity) ==
  IF severity \in {Absent, Null} THEN Informational
  ELSE IF severity.s = <<>> THEN Informational
  ELSE IF C9_SameIgnoringCase(severity.s, unknown) THEN Informational
  ELSE IF C9_SameIgnoringCase(severity.s, uknown) THEN Informational
  ELSE severity.s

\* C9: a missing, null, empty, "unknown" or "uknown" (any letter case) severity
\* is stored as Informational in the finding row and in a catalog entry created
\* for the candidate; every other severity string is stored unchanged.
C9_SeverityStored ==
  [][\A s \in ScanIds :
       /\ scan_results'[s] # scan_results[s] =>
            Last(scan_results'[s]).severity = C9_Expected(Candidate(s).severity)
       /\ (run[s].pc = "post_vuln" /\ vulnerabilities' # vulnerabilities) =>
            Last(vulnerabilities').severity = C9_Expected(Candidate(s).severity)]_vars

\* a mixed-case "unknown" was stored as Informational in both tables, and
\* another severity was stored as it came
C9_Witness ==
  \E s \in ScanIds :
    /\ run[s].pc = "notify"
    /\ Len(scan_results[s]) = 2
    /\ run[s].scan_result.vulnerabilities[1].severity =
         Str(<<"U", "n", "K", "N", "O", "w", "n">>)
    /\ scan_results[s][1].severity = Informational
    /\ run[s].scan_result.vulnerabilities[2].severity = Str(<<"u", "n", "k", "n", "o", "w">>)
    /\ scan_results[s][2].severity = <<"u", "n", "k", "n", "o", "w">>
    /\ \E k \in DOMAIN vulnerabilities :
         vulnerabilities[k].cve_id = "CVE-B" /\ vulnerabilities[k].severity = Informational

CveCount(cve_id) ==
  Cardinality({k \in DOMAIN vulnerabilities : vulnerabilities[k].cve_id = cve_id})

\* C10: with one job running at a time, a CVE identifier never has more than
\* one catalog entry; an identifier that had an entry gets no second one, and
\* once a candidate with an identifier is past its catalog step the identifier
\* has exactly one entry, which a later candidate with the same identifier (or
\* a candidate whose identifier had an entry) reuses.  A candidate without
\* identifier adds no entry.
C10_OneEntryPerCve ==
  /\ CveCount("CVE-A") = 1
  /\ CveCount("CVE-B") <= 1
  /\ CveCount("") = 0
  /\ CveCount("None") = 0
  /\ \A s \in ScanIds :
       (run[s].pc = "post_result" /\ Candidate(s).cve_id \notin {"None", ""}) =>
         /\ CveCount(Candidate(s).cve_id) = 1
         /\ (\/ Candidate(s).cve_id = "CVE-A"
             \/ \E j \in 1..(run[s].i - 1) :
                  run[s].scan_result.vulnerabilities[j].cve_id = Candidate(s).cve_id) =>
              \E k \in DOMAIN vulnerabilities :
                /\ vulnerabilities[k].cve_id = Candidate(s).cve_id
                /\ run[s].vuln_id = vulnerabilities[k].id

\* the second of two candidates with the new identifier CVE-B is past its
\* catalog step and the catalog holds one entry for it
C10_Witness ==
  \E s \in ScanIds :
    /\ run[s].pc = "post_result"
    /\ run[s].i = 2
    /\ run[s].scan_result.vulnerabilities[1].cve_id = "CVE-B"
    /\ run[s].scan_result.vulnerabilities[2].cve_id = "CVE-B"
    /\ Len(scan_results[s]) = 1
    /\ CveCount("CVE-B") = 1
    /\ Len(vulnerabilities) = 2
    /\ run[s].vuln_id = 2

\* the runs so far ran one after the other
Serial == \A s \in ScanIds : run[s].alone

\* C11: the catalog lookup and the catalog insert are two steps, so jobs that
\* run in parallel can each add an entry for the same new CVE identifier; a
\* run adds at most one entry for an identifier, the catalog holds two entries
\* for it only when runs overlapped, and when the runs ran one after the other
\* the identifier has exactly one entry once a candidate is past its catalog
\* step.
C11_DuplicateOnlyWhenInterleaved ==
  /\ CveCount("CVE-B") <= Cardinality({s \in ScanIds : run[s].pc # "none"})
  /\ Serial => CveCount("CVE-B") <= 1
  /\ \A s \in ScanIds :
       (Serial /\ run[s].pc = "post_result" /\ Candidate(s).cve_id = "CVE-B") =>
         CveCount("CVE-B") = 1

\* two jobs that ran in parallel both returned completed and left two catalog
\* entries for CVE-B
C11_Witness ==
  /\ Len(scans) = 2
  /\ \A s \in ScanIds : run[s].pc = "returned" /\ run[s].ret = "completed"
  /\ ~Serial
  /\ CveCount("CVE-B") = 2

\* C12: no step modifies or deletes a catalog entry: every entry of the
\* catalog is there, with the same fields, after the step.
C12_CatalogEntriesKept ==
  [][/\ Len(vulnerabilities') >= Len(vulnerabilities)
     /\ \A k \in DOMAIN vulnerabilities : vulnerabilities'[k] = vulnerabilities[k]]_vars

\* a candidate for CVE-A with severity High found the entry of CVE-A, whose
\* severity is still Low, and its finding refers to that entry
C12_Witness ==
  \E s \in ScanIds :
    /\ run[s].pc \in {"post_result", "get_vuln", "post_vuln", "notify"}
    /\ Len(scan_results[s]) >= 1
    /\ run[s].scan_result.vulnerabilities[1].cve_id = "CVE-A"
    /\ Severity(run[s].scan_result.vulnerabilities[1]) = <<"H", "i", "g", "h">>
    /\ scan_results[s][1].vulnerability_id = 1
    /\ scan_results[s][1].severity = <<"H", "i", "g", "h">>
    /\ vulnerabilities[1] = [id |-> 1, cve_id |-> "CVE-A", severity |-> <<"L", "o", "w">>]

\* C13: a finding row has a null catalog reference exactly when its candidate
\* had no CVE identifier; for a candidate with an identifier the row refers
\* to the catalog entry of that identifier, whether the entry existed or was
\* inserted during the run.
C13_FindingRefersToEntry ==
  [][\A s \in ScanIds :
       scan_results'[s] # scan_results[s] =>
         LET row == Last(scan_results'[s])
         IN /\ (row.vulnerability_id = 0) <=> ~HasCve(Candidate(s))
            /\ HasCve(Candidate(s)) =>
                 \E k \in DOMAIN vulnerabilities :
                   /\ vulnerabilities[k].cve_id = Candidate(s).cve_id
                   /\ vulnerabilities[k].id = row.vulnerability_id]_vars

\* the device of job s has an owner
HasOwner(s) ==
  LET devices == GetDevices(scans[s].device_id)
  IN devices # <<>> /\ devices[1].user_id # "None"

\* C14: a job never has more than one notification; a job whose run ended has
\* one notification when its final status is completed and its device has an
\* owner, and none otherwise; a failed job has none.
C14_OneNotificationWhenCompleted ==
  \A s \in ScanIds :
    /\ Len(notifications[s]) <= 1
    /\ scans[s].status = "failed" => Len(notifications[s]) = 0
    /\ Ended(s) =>
         Len(notifications[s]) =
           IF scans[s].status = "completed" /\ HasOwner(s) THEN 1 ELSE 0


\* C15: a batch request ends only after its loop has gone through every
\* requested device id, whatever raised on the way: the response is the 202
\* that lists one created job per requested id.
C15_BatchLoopContinues ==
  [][(batch.active /\ ~batch'.active) =>
       /\ batch.device_ids = <<>>
       /\ response'.status_code = 202
       /\ Len(response'.scan_ids) = Len(batch.requested)]_vars


C17_UnknownDeviceJobStaysInProgress ==
  [][/\ (batch.active /\ batch'.active /\ Len(scans') > Len(scans)) =>
          ((\E item \in queue' : item.scan_id = Len(scans'))
             <=> GetDevices(Head(batch.device_ids)) # <<>>)
     /\ \A s \in DOMAIN scans' :
          IF GetDevices(scans'[s].device_id) = <<>>
            THEN /\ \A item \in queue' : item.scan_id # s
                 /\ run'[s] = NoRun
                 /\ patchLog'[s] = <<>>
                 /\ scan_results'[s] = <<>>
                 /\ scans'[s] = ScanPayload(s, scans'[s].device_id)
          ELSE (run'[s].pc \in {"returned", "raised"}) =>
                 scans'[s].status \in {"completed", "failed"}]_vars


\* the request answered in this step fails validation
C18_Refused(r) ==
  \/ /\ r.op = "trigger_scan"
     /\ \/ GetDevices(r.device_ids[1]) = <<>>
        \/ ~GetDevices(r.device_ids[1])[1].is_active
  \/ r.op = "trigger_batch_scan" /\ r.device_ids = <<>>

\* C18: a trigger request that fails validation (trigger_scan for an unknown
\* or an inactive device, trigger_batch_scan for an empty list) is answered
\* with its client error, 404 for the unknown device and 400 for the other
\* two, unless the lookup itself raised, and in either case inserts no scan row
\* and enqueues no work item; only such requests get a 400 or a 404.
C18_RefusedCreatesNothing ==
  [][/\ C18_Refused(response') =>
          /\ UNCHANGED <<scans, queue, patchLog, run, scan_results, notifications, batch>>
          /\ response'.scan_ids = <<>>
          /\ response'.status_code \in
               IF response'.op = "trigger_batch_scan" THEN {400}
               ELSE IF GetDevices(response'.device_ids[1]) = <<>> THEN {404, 500}
               ELSE {400, 500}
     /\ response'.status_code \in {400, 404} => C18_Refused(response')]_vars

\* with one job created and enqueued, a request for the inactive device d3 was
\* answered 400 and the scans table and the queue are as they were
C18_Witness ==
  /\ response = Response("trigger_scan", <<"d3">>, 400, <<>>)
  /\ Len(scans) = 1
  /\ scans[1].device_id = "d1"
  /\ {item.scan_id : item \in queue} = {1}


\* C19: when each call of search_vulnerabilities is awaited before the next
\* starts, the outbound requests of two successive calls on the instance are
\* at least 1 second apart, so the calls so far took at least one second less
\* than their number.
C19_SequentialCallsSpaced ==
  /\ \A k \in 1..(Len(requests) - 1) :
       requests[k + 1].at - requests[k].at >= rate_limit_delay
  /\ Len(requests) >= 1 =>
       now - requests[1].at >= (Len(requests) - 1) * rate_limit_delay

\* C20: on an instance with the rate limiter, no two outbound requests are
\* less than 1 second apart, also when the callers overlap.
C20_ConcurrentCallsSpaced ==
  service = "external_apis_backup" =>
    \A j, k \in DOMAIN requests :
      j < k => requests[k].at - requests[j].at >= rate_limit_delay


\* C21: search_vulnerabilities returns a dict for every outcome: the payload
\* for 200, error invalid_api_key for 401, error rate_limit_exceeded with
\* retry_after after a further 2 seconds for 429, error url_redirect for 301,
\* error timeout for a timeout, and a dict with an error key otherwise.
C21_OutcomesClassified ==
  \A c \in Callers :
    (callers[c].pc = "idle" /\ callers[c].outcome # "none") =>
      LET ret == callers[c].ret
      IN CASE callers[c].outcome = "200" -> ret = SearchDict({"web"}, "")
           [] callers[c].outcome = "401" ->
                "error" \in ret.keys /\ ret.error = "invalid_api_key"
           [] callers[c].outcome \in RateLimited ->
                /\ {"error", "retry_after"} \subseteq ret.keys
                /\ ret.error = "rate_limit_exceeded"
                /\ callers[c].waited >= rate_limit_backoff
           [] callers[c].outcome = "301" ->
                "error" \in ret.keys /\ ret.error = "url_redirect"
           [] callers[c].outcome = "timeout" ->
                "error" \in ret.keys /\ ret.error = "timeout"
           [] OTHER -> "error" \in ret.keys


\* C23: filter_vulnerability_results returns a dict with vulnerability_found
\* false for every failure: exactly {vulnerability_found: false, error: "API
\* error"} for a non-200 response, a dict with vulnerability_found false for
\* any exception, and for a text that cannot be parsed a dict with
\* vulnerability_found false whose raw_response is the original, unstripped
\* text.
C23_FilterFailuresAreDicts ==
  filtering.pc = "returned" =>
    LET resp == filtering.response
        ret == filtering.ret
    IN /\ resp.kind = "non_200" =>
            ret = Fallback({"vulnerability_found", "error"}, "API error", <<>>)
       /\ resp.kind \in FilterExceptions =>
            ~ret.parsed /\ "vulnerability_found" \in ret.keys
       /\ resp.kind = "text" =>
            /\ (JSONDecodeError(resp.text)
                  /\ JSONDecodeError(clean_text("external_apis_backup", resp.text)))
                 => ~ret.parsed
            /\ ~ret.parsed =>
                 /\ {"vulnerability_found", "raw_response"} \subseteq ret.keys
                 /\ ret.raw_response = resp.text

\* a text with whitespace around it was refused and came back unstripped
C23_Witness ==
  /\ filtering.pc = "returned"
  /\ filtering.response.kind = "text"
  /\ filtering.response.text # strip(filtering.response.text)
  /\ service = "external_apis_backup"
  /\ ~filtering.ret.parsed
  /\ filtering.ret.raw_response = filtering.response.text

\* what a text holds between a fence with the given opening and the closing
\* fence, whitespace aside
FencedDocument(text, open) ==
  strip(SubSeq(strip(text), Len(open) + 1, Len(strip(text)) - Len(Fence)))

\* the text is a valid JSON document inside one fence of the given opening
IsFenced(text, open) ==
  /\ startswith(strip(text), open)
  /\ endswith(strip(text), Fence)
  /\ Len(strip(text)) >= Len(open) + Len(Fence)
  /\ ~JSONDecodeError(FencedDocument(text, open))

\* C24: a valid JSON text gives the same parsed value bare, inside a fence
\* opened with three backticks and json, and inside a fence opened with three
\* backticks alone, with optional whitespace around.
C24_FencedTextParsesAlike ==
  (filtering.pc = "returned" /\ filtering.response.kind = "text") =>
    \A open \in {JsonFence, Fence} :
      IsFenced(filtering.response.text, open) =>
        filtering.ret =
          filter_return(service,
                        FilterResponse("text", FencedDocument(filtering.response.text, open)))


\* the outbound search requests issued for caller c
RequestsOf(c) == Cardinality({k \in 1..Len(requests) : requests[k].caller = c})

\* the call of caller c has sent its request
Sent(c) ==
  \/ callers[c].pc \in {"requesting", "throttled"}
  \/ callers[c].pc = "idle" /\ callers[c].outcome # "none"

\* the run of s is past its call of the filter client
Filtered(s) == run[s].pc \notin {"none", "scan_device", "searching"}

\* every call so far has issued one request and every write was issued once
C22_OneAttemptEach ==
  /\ \A c \in Callers :
       RequestsOf(c) = IF Sent(c) \/ (c \in ScanIds /\ Filtered(c)) THEN 1 ELSE 0
  /\ filtering.posts = Cardinality({s \in ScanIds : Filtered(s)})
  /\ \A s \in ScanIds : \A j \in 1..Len(patchLog[s]) : \A k \in 1..Len(patchLog[s]) :
       j # k => patchLog[s][j].data.status # patchLog[s][k].data.status
  /\ \A s \in ScanIds : Cardinality({item \in queue : item.scan_id = s}) <= 1

\* a run does not go back: the scan is not entered again, and a write that
\* failed leads to the handler and from there out of the run
C22_NoStepBack ==
  \A s \in ScanIds :
    /\ run'[s].pc \in {"scan_device", "searching"} =>
         run[s].pc \in {"none", "scan_device", "searching"}
    /\ run[s].pc # "none" => \A item \in queue' : item.scan_id # s
    /\ (~run[s].perr /\ run'[s].perr) => run'[s].pc \in {"patch_failed", "raised"}
    /\ run[s].pc = "patch_failed" => run'[s].pc \in {"patch_failed", "returned", "raised"}
    /\ Len(scan_results'[s]) <= Len(scan_results[s]) + 1
    /\ Len(notifications'[s]) <= Len(notifications[s]) + 1

EmptySearch(s) ==
  run[s].search_outcome # "200" \/ run[s].filter_args.search_results = <<>>

\* the analysis counts as no vulnerabilities
ZeroAnalysis(analysis) == ErrorKey(analysis) \/ NotFound(analysis)

\* the filter was called once, with the empty result set and the job's device
C25_FilterCalledOnce(s) ==
  /\ run[s].filter_args = FilterArgs(<<>>, scans[s].device_id)
  /\ filtering.posts = Cardinality({other \in ScanIds : Filtered(other)})

\* a step of the run of s writes no finding and no catalog entry, enters the
\* handler only after a persistence fault, and returns completed with
\* vulnerabilities_found 0
C25_StaysEmpty(s) ==
  /\ vulnerabilities' = vulnerabilities
  /\ scan_results'[s] = <<>>
  /\ run'[s].pc = "patch_failed" => run'[s].perr
  /\ (run'[s].pc = "returned" /\ ~run'[s].perr) =>
       /\ run'[s].ret = "completed"
       /\ scans'[s].status = "completed"
       /\ scans'[s].vulnerabilities_found = 0

\* C25 as stated: when the search returns zero results or a structured error,
\* the filter is still invoked exactly once, with an empty result set and the
\* device descriptor, and the job completes with vulnerabilities_found 0, no
\* finding rows and no catalog writes, and does not end failed.
C25_EmptySearchEndsEmpty ==
  [][\A s \in ScanIds :
       (Running(s) /\ Filtered(s) /\ EmptySearch(s)) =>
         C25_FilterCalledOnce(s) /\ C25_StaysEmpty(s)]_vars

\* C25 amended: when the search returns zero results or a structured error,
\* the filter is still invoked exactly once, with an empty result set and the
\* device descriptor; when its analysis then carries an error key or
\* vulnerability_found false, the job completes with vulnerabilities_found 0,
\* no finding rows and no catalog writes, and fails only on a persistence fault.
C25_EmptySearchZeroAnalysisEndsEmpty ==
  [][\A s \in ScanIds :
       (Running(s) /\ Filtered(s) /\ EmptySearch(s)) =>
         /\ C25_FilterCalledOnce(s)
         /\ ZeroAnalysis(run[s].analysis) => C25_StaysEmpty(s)]_vars

\* after a search answered 500 and an analysis with vulnerability_found false
\* the job of a device with an owner is completed with no vulnerabilities
C25_Witness ==
  \E s \in ScanIds :
    /\ run[s].pc = "notify"
    /\ run[s].search_outcome = "500"
    /\ run[s].filter_args.search_results = <<>>
    /\ NotFound(run[s].analysis)
    /\ scans[s].status = "completed"
    /\ scans[s].vulnerabilities_found = 0
    /\ scan_results[s] = <<>>


\* C26: when the analysis carries an error key or vulnerability_found false
\* (the filter backend answered 500, say), the job has zero vulnerabilities:
\* no step of its run writes a finding row or a catalog entry, the completed
\* patch carries vulnerabilities_found 0 and the run ends completed unless a
\* persistence write fails, also when the analysis lists vulnerabilities.
C26_ZeroAnalysisZeroFindings ==
  [][\A s \in ScanIds :
       (Running(s) /\ Filtered(s) /\ ZeroAnalysis(run[s].analysis)) =>
         /\ run[s].scan_result.vulnerabilities = <<>>
         /\ vulnerabilities' = vulnerabilities
         /\ scan_results'[s] = <<>>
         /\ Len(patchLog'[s]) > Len(patchLog[s]) =>
              LET data == patchLog'[s][Len(patchLog'[s])].data
              IN \/ data.status = "completed" /\ data.vulnerabilities_found = Num(0)
                 \/ data.status = "failed" /\ run[s].perr
         /\ (run'[s].pc \in {"returned", "raised"} /\ ~run'[s].perr) =>
              /\ run'[s].ret = "completed"
              /\ scans'[s].status = "completed"
              /\ scans'[s].vulnerabilities_found = 0]_vars

\* a job whose analysis lists a vulnerability next to vulnerability_found
\* false, and one whose analysis is the dict of a 500, completed with none
C26_Witness ==
  \E s \in ScanIds :
    /\ run[s].pc = "notify"
    /\ \/ HasMember(run[s].analysis, "vulnerabilities") /\ NotFound(run[s].analysis)
       \/ run[s].analysis = Fallback({"vulnerability_found", "error"}, "API error", <<>>)
    /\ run[s].search_outcome = "200"
    /\ run[s].filter_args.search_results # <<>>
    /\ scans[s].status = "completed"
    /\ scans[s].vulnerabilities_found = 0
    /\ scan_results[s] = <<>>


\* the step is the patch of the run of s, and the backend accepted it
PatchedByOwnRun(s) ==
  /\ run[s].pc \in {"patch_completed", "patch_failed"}
  /\ run'[s] # run[s]
  /\ Len(patchLog'[s]) = Len(patchLog[s]) + 1
  /\ patchLog'[s][Len(patchLog'[s])].ok
  /\ scans'[s] = ApplyPatch(scans[s], patchLog'[s][Len(patchLog'[s])].data)

\* C27: once created, a scan row is written only by the patch of the run for
\* its own scan id: no row is deleted, the steps of trigger_scan,
\* trigger_batch_scan, list_scans and get_scan leave every existing row as it
\* is, and a run for s patches no other row and writes no finding row that
\* carries another scan id.
C27_OnlyOwnRunWrites ==
  [][/\ Len(scans') >= Len(scans)
     /\ \A s \in ScanIds :
          /\ scans'[s].id = scans[s].id
          /\ scans'[s].device_id = scans[s].device_id
          /\ scans'[s] # scans[s] => PatchedByOwnRun(s)
          /\ patchLog'[s] # patchLog[s] => run'[s] # run[s]
          /\ scan_results'[s] # scan_results[s] =>
               /\ run[s].pc = "post_result"
               /\ run'[s] # run[s]
               /\ \A k \in 1..Len(scan_results'[s]) : scan_results'[s][k].scan_id = s
          /\ (response'.op # "none" \/ batch' # batch) =>
               /\ scans'[s] = scans[s]
               /\ patchLog'[s] = patchLog[s]
               /\ scan_results'[s] = scan_results[s]]_vars

\* two jobs: the first patched completed with its finding row written, the
\* second still in progress while its run writes, and a read just answered
C27_Witness ==
  /\ Len(scans) = 2
  /\ scans[1].status = "completed"
  /\ scan_results[1] # <<>>
  /\ scans[2].status = "in_progress"
  /\ run[2].pc = "patch_completed"
  /\ response.op = "get_scan"
  /\ response.status_code = 200


\* C28: the triggers insert the row before they enqueue and answer without
\* waiting for the worker: every work item on the queue is for a scan id whose
\* row exists and is in_progress, so a worker's patch has its row, no item is
\* queued for an id whose insert failed, and a 202 answer of trigger_scan
\* describes an in_progress row whose item waits and whose run has not begun.
C28_RowBeforeWorkItem ==
  /\ \A item \in queue :
       /\ item.scan_id \in ScanIds
       /\ scans[item.scan_id].status = "in_progress"
       /\ run[item.scan_id].pc = "none"
  /\ (response.op = "trigger_scan" /\ response.status_code = 202) =>
       /\ response.scan_ids = <<Len(scans)>>
       /\ scans[Len(scans)].status = "in_progress"
       /\ run[Len(scans)].pc = "none"
       /\ \E item \in queue : item.scan_id = Len(scans)
  /\ (response.op = "trigger_batch_scan" /\ response.status_code = 202) =>
       \A k \in 1..Len(response.scan_ids) : response.scan_ids[k] \in ScanIds
  /\ \A s \in ScanIds : Len(patchLog[s]) > 0 => run[s].pc # "none"

\* trigger_scan has just answered 202 for a second job while the run of the
\* first is under way
C28_Witness ==
  /\ response.op = "trigger_scan"
  /\ response.status_code = 202
  /\ Len(scans) = 2
  /\ Running(1)
  /\ \E item \in queue : item.scan_id = 2


\* the device id names a device whose is_active flag is false
Inactive(device_id) ==
  \E k \in 1..Len(Devices) : Devices[k].id = device_id /\ ~Devices[k].is_active

\* C29: no scan is started for an inactive device: no scan row carries the id
\* of a device whose is_active flag is false, and no work item is enqueued
\* for such a device, whichever trigger endpoint was called.
C29_NoScanForInactiveDevice ==
  /\ \A s \in ScanIds : ~Inactive(scans[s].device_id)
  /\ \A item \in queue : item.device.is_active

\* C30: every scan row created by trigger_scan has its work item: the step of
\* trigger_scan that inserts a row also puts the item for its scan id on the
\* queue.
C30_RowHasWorkItem ==
  [][(response'.op = "trigger_scan" /\ Len(scans') > Len(scans)) =>
       \E item \in queue' : item.scan_id = Len(scans')]_vars

====
